---------------------------- MODULE Spec2Model ----------------------------
(***************************************************************************)
(* DiscordWave gateway client (discordwave/__init__.py, class Client).     *)
(*                                                                         *)
(* The model follows one Client object through configuration (command()    *)
(* and event() registrations), start() (HELLO, heartbeat task, IDENTIFY),  *)
(* the dispatch loop _event_loop() and the heartbeat task                  *)
(* _heartbeat_loop().  asyncio is cooperative: a task runs until it        *)
(* reaches an await that suspends, so every action below is the code       *)
(* between two suspension points.                                          *)
(*                                                                         *)
(* Python values:                                                          *)
(*   str          a tuple of one-character strings, "" is <<>>             *)
(*   dict         a record; a key the dict lacks is a field the record     *)
(*                lacks (see Get)                                          *)
(*   x or None    Null == <<>> for None, Some(v) == <<v>> otherwise        *)
(***************************************************************************)
EXTENDS Integers, Sequences, FiniteSets, TLC

VARIABLES
    pc,                 \* position of the coroutine start()
    hb,                 \* position of the task _heartbeat_loop()
    ws,                 \* the websocket: "none", "open", "closed"
    heartbeat_interval, \* Client.heartbeat_interval
    sequence,           \* Client.sequence
    session_id,         \* Client.session_id
    user,               \* Client.user
    commands,           \* Client.commands: name -> Command
    event_handlers,     \* Client.event_handlers: name -> list of handlers
    hello_data,         \* start()'s local: the first frame received
    data,               \* _event_loop()'s local: the frame being processed
    called,             \* command callbacks invoked by the current iteration
    tasks,              \* handler tasks created by the current iteration
    sent,               \* frames written to the websocket, in order
    nrecv,              \* number of frames the dispatch loop has taken
    last_s,             \* history: last non-null sequence number received
    registered          \* history: the event() registrations, in order

vars == <<pc, hb, ws, heartbeat_interval, sequence, session_id, user,
          commands, event_handlers, hello_data, data, called, tasks, sent,
          nrecv, last_s, registered>>

-----------------------------------------------------------------------------
(* Bounds of the model *)

MaxFrames == 2
MaxSeq == 2
MaxBeats == 2
MaxReg == 2
MaxLen == 3

-----------------------------------------------------------------------------
(* Python values *)

Null == <<>>
Some(v) == <<v>>
Val(o) == o[1]

\* dict.get(key, default)
Get(dict, key, default) == IF key \in DOMAIN dict THEN dict[key] ELSE default

\* dict.get(key): the value, or None
GetOpt(dict, key) == IF key \in DOMAIN dict THEN Some(dict[key]) ELSE Null

UpperAlpha ==
    <<"A","B","C","D","E","F","G","H","I","J","K","L","M",
      "N","O","P","Q","R","S","T","U","V","W","X","Y","Z">>

LowerAlpha ==
    <<"a","b","c","d","e","f","g","h","i","j","k","l","m",
      "n","o","p","q","r","s","t","u","v","w","x","y","z">>

LowerChar(c) ==
    IF \E i \in DOMAIN UpperAlpha : UpperAlpha[i] = c
    THEN LowerAlpha[CHOOSE i \in DOMAIN UpperAlpha : UpperAlpha[i] = c]
    ELSE c

UpperChar(c) ==
    IF \E i \in DOMAIN LowerAlpha : LowerAlpha[i] = c
    THEN UpperAlpha[CHOOSE i \in DOMAIN LowerAlpha : LowerAlpha[i] = c]
    ELSE c

\* str.lower() on ASCII text
Lower(str) == [i \in DOMAIN str |-> LowerChar(str[i])]

\* str.upper() on ASCII text
Upper(str) == [i \in DOMAIN str |-> UpperChar(str[i])]

\* str.startswith(prefix)
StartsWith(str, prefix) ==
    /\ Len(str) >= Len(prefix)
    /\ SubSeq(str, 1, Len(prefix)) = prefix

\* index of the first occurrence of the character sep in str, 0 if none
Find(str, sep) ==
    IF \E i \in DOMAIN str : str[i] = sep
    THEN CHOOSE i \in DOMAIN str :
            str[i] = sep /\ \A j \in 1..(i - 1) : str[j] # sep
    ELSE 0

\* str.split(sep, 1) for a one-character sep
Split1(str, sep) ==
    LET i == Find(str, sep)
    IN  IF i = 0 THEN <<str>>
        ELSE <<SubSeq(str, 1, i - 1), SubSeq(str, i + 1, Len(str))>>

-----------------------------------------------------------------------------
(* Names the code compares against *)

READY == <<"r","e","a","d","y">>
MESSAGE_CREATE == <<"m","e","s","s","a","g","e","_","c","r","e","a","t","e">>
GUILD_CREATE == <<"g","u","i","l","d","_","c","r","e","a","t","e">>

PREFIX == <<"!">>
SPACE == " "

OP_DISPATCH == 0
OP_HEARTBEAT == 1
OP_IDENTIFY == 2

-----------------------------------------------------------------------------
(* Data containers *)

\* User.__init__
User(d) ==
    [id            |-> GetOpt(d, "id"),
     username      |-> GetOpt(d, "username"),
     discriminator |-> GetOpt(d, "discriminator"),
     avatar        |-> GetOpt(d, "avatar"),
     bot           |-> Get(d, "bot", FALSE)]

\* Message.__init__ (the client reference is the one Client of the model)
Message(d) ==
    [id         |-> GetOpt(d, "id"),
     channel_id |-> GetOpt(d, "channel_id"),
     guild_id   |-> GetOpt(d, "guild_id"),
     author     |-> IF "author" \in DOMAIN d THEN Some(User(d.author)) ELSE Null,
     content    |-> Get(d, "content", <<>>),
     timestamp  |-> GetOpt(d, "timestamp")]

\* Command.__init__
Command(name, callback, description) ==
    [name |-> name, callback |-> callback, description |-> description]

-----------------------------------------------------------------------------
(* Client.__init__ *)

Init ==
    /\ pc = "config"
    /\ hb = "none"
    /\ ws = "none"
    /\ heartbeat_interval = Null
    /\ sequence = Null
    /\ session_id = Null
    /\ user = Null
    /\ commands = <<>>
    /\ event_handlers = [k \in {READY, MESSAGE_CREATE, GUILD_CREATE} |-> <<>>]
    /\ hello_data = Null
    /\ data = Null
    /\ called = <<>>
    /\ tasks = <<>>
    /\ sent = <<>>
    /\ nrecv = 0
    /\ last_s = Null
    /\ registered = <<>>

-----------------------------------------------------------------------------
(* Configuration: the decorators command() and event() *)

\* dict[key] = value
SetItem(dict, key, value) ==
    [k \in DOMAIN dict \cup {key} |-> IF k = key THEN value ELSE dict[k]]

\* SetDefaultAppend as `dict[key] = [value]`: an earlier handler is dropped
SetOverwrite(dict, key, value) ==
    [k \in DOMAIN dict \cup {key} |-> IF k = key THEN <<value>> ELSE dict[k]]

\* dict.setdefault(key, []).append(value)
SetDefaultAppend(dict, key, value) ==
    [k \in DOMAIN dict \cup {key} |->
        IF k = key THEN Append(Get(dict, key, <<>>), value) ELSE dict[k]]

\* `name or func.__name__`: None and "" are both falsy
OrName(name, func) ==
    IF name = Null \/ Val(name) = <<>> THEN func.name ELSE Val(name)

\* total number of handlers in the table
RECURSIVE NumHandlers(_, _)
NumHandlers(table, keys) ==
    IF keys = {} THEN 0
    ELSE LET k == CHOOSE x \in keys : TRUE
         IN  Len(table[k]) + NumHandlers(table, keys \ {k})

RegCount ==
    Cardinality(DOMAIN commands) + NumHandlers(event_handlers, DOMAIN event_handlers)

\* Client.command(name, description)(func)
RegisterCommand(name, description, func) ==
    /\ pc = "config"
    /\ RegCount < MaxReg
    /\ LET command_name == OrName(name, func)
       IN  commands' = SetItem(commands, command_name,
                               Command(command_name, func, description))
    /\ UNCHANGED <<pc, hb, ws, heartbeat_interval, sequence, session_id, user,
                   event_handlers, hello_data, data, called, tasks, sent,
                   nrecv, last_s, registered>>

\* Client.event(event_name)(func)
RegisterEvent(event_name, func) ==
    /\ pc = "config"
    /\ RegCount < MaxReg
    /\ event_handlers' =
          SetDefaultAppend(event_handlers, OrName(event_name, func), func)
    /\ registered' = Append(registered, [name |-> event_name, func |-> func])
    /\ UNCHANGED <<pc, hb, ws, heartbeat_interval, sequence, session_id, user,
                   commands, hello_data, data, called, tasks, sent,
                   nrecv, last_s>>

-----------------------------------------------------------------------------
(* Client.start *)

\* start() up to its first read of the websocket: the HTTP session, the
\* gateway URL and the connection
Start ==
    /\ pc = "config"
    /\ pc' = "hello"
    /\ ws' = "open"
    /\ UNCHANGED <<hb, heartbeat_interval, sequence, session_id, user,
                   commands, event_handlers, hello_data, data, called, tasks,
                   sent, nrecv, last_s, registered>>

\* hello_data['d']['heartbeat_interval'] is there (no KeyError)
HasInterval(frame) ==
    /\ "d" \in DOMAIN frame
    /\ "heartbeat_interval" \in DOMAIN frame.d

\* hello_data['d']['heartbeat_interval'] / 1000: true division, kept exact
\* as the pair <<numerator, denominator>>
IntervalSeconds(frame) == <<frame.d.heartbeat_interval, 1000>>

\* the first frame arrives: the interval is taken from it and the heartbeat
\* task is created; a frame without the key raises out of start()
RecvHello(frame) ==
    /\ pc = "hello"
    /\ hello_data' = Some(frame)
    /\ IF HasInterval(frame)
       THEN /\ heartbeat_interval' = Some(IntervalSeconds(frame))
            /\ hb' = "created"
            /\ pc' = "identify"
       ELSE /\ pc' = "failed"
            /\ UNCHANGED <<heartbeat_interval, hb>>
    /\ UNCHANGED <<ws, sequence, session_id, user, commands, event_handlers,
                   data, called, tasks, sent, nrecv, last_s, registered>>

\* Intents.default().to_integer(): only `messages` is set
DefaultIntents == 2 ^ 9

identify_payload ==
    [op |-> OP_IDENTIFY,
     d  |-> [token |-> "token", intents |-> DefaultIntents,
             properties |-> [os |-> "linux", browser |-> "discordwave",
                             device |-> "discordwave"]]]

\* Identify with `self._identify()` not awaited: the coroutine never runs
IdentifyNotAwaited ==
    /\ pc = "identify"
    /\ pc' = "recv"
    /\ UNCHANGED <<hb, ws, heartbeat_interval, sequence, session_id, user,
                   commands, event_handlers, hello_data, data, called, tasks,
                   sent, nrecv, last_s, registered>>

\* Client._identify, then start() enters _event_loop and waits for a frame
Identify ==
    /\ pc = "identify"
    /\ sent' = Append(sent, identify_payload)
    /\ pc' = "recv"
    /\ UNCHANGED <<hb, ws, heartbeat_interval, sequence, session_id, user,
                   commands, event_handlers, hello_data, data, called, tasks,
                   nrecv, last_s, registered>>

-----------------------------------------------------------------------------
(* Client._heartbeat_loop *)

\* MainSuspended under preemptive scheduling: the heartbeat task can run at
\* any point of start()
MainSuspendedAlways == TRUE

\* MainSuspended with the await of a command callback holding the event
\* loop, as a callback that blocks without awaiting would
MainSuspendedNotInCallback == pc \in {"recv", "done", "failed", "closing"}

\* start() is suspended at an await or has ended, or run() is suspended in
\* close(): another task can run
MainSuspended == pc \in {"recv", "callback", "done", "failed", "closing"}

NumBeats == Cardinality({i \in DOMAIN sent : sent[i].op = OP_HEARTBEAT})

\* the payload of a heartbeat: {"op": 1, "d": self.sequence}
heartbeat_payload == [op |-> OP_HEARTBEAT, d |-> sequence]

\* the task starts and goes to sleep
HeartbeatStart ==
    /\ hb = "created"
    /\ MainSuspended
    /\ hb' = "sleeping"
    /\ UNCHANGED <<pc, ws, heartbeat_interval, sequence, session_id, user,
                   commands, event_handlers, hello_data, data, called, tasks,
                   sent, nrecv, last_s, registered>>

\* the sleep ends: a heartbeat is sent and the task sleeps again; on a closed
\* websocket send() raises and the task ends
HeartbeatTick ==
    /\ hb = "sleeping"
    /\ MainSuspended
    /\ NumBeats < MaxBeats
    /\ IF ws = "open"
       THEN sent' = Append(sent, heartbeat_payload) /\ hb' = hb
       ELSE hb' = "dead" /\ sent' = sent
    /\ UNCHANGED <<pc, ws, heartbeat_interval, sequence, session_id, user,
                   commands, event_handlers, hello_data, data, called, tasks,
                   nrecv, last_s, registered>>

-----------------------------------------------------------------------------
(* Client._event_loop *)

\* IsDispatch as `'t' in data`: a frame is a dispatch when it names an event
IsDispatchByName(frame) == "t" \in DOMAIN frame

\* data['op'] == 0
IsDispatch(frame) == frame.op = OP_DISPATCH

\* EventName without .lower(): the name is compared as it arrives
EventNameExact(frame) == frame.t

\* event_name = data['t'].lower()
EventName(frame) == Lower(frame.t)

\* self.sequence = data.get('s', self.sequence)
NewSequence(frame) == Get(frame, "s", sequence)

\* parts = message.content[1:].split(' ', 1)
Parts(content) == Split1(Tail(content), SPACE)

\* CommandName with the token lower-cased before the lookup
CommandNameLower(content) == Lower(Parts(content)[1])

\* command_name = parts[0]
CommandName(content) == Parts(content)[1]

\* Args with None, not "", when nothing follows the command name
ArgsAbsent(parts) == IF Len(parts) > 1 THEN Some(parts[2]) ELSE Null

\* args = parts[1] if len(parts) > 1 else ""   (a str in both cases)
Args(parts) == IF Len(parts) > 1 THEN Some(parts[2]) ELSE Some(<<>>)

\* the frame is a message whose content starts with the prefix
IsPrefixed(frame) ==
    /\ IsDispatch(frame)
    /\ EventName(frame) = MESSAGE_CREATE
    /\ StartsWith(Message(frame.d).content, PREFIX)

\* command_name in self.commands
IsCommand(frame) ==
    /\ IsPrefixed(frame)
    /\ CommandName(Message(frame.d).content) \in DOMAIN commands

\* await self.commands[command_name].callback(message, args)
Invocation(frame) ==
    LET message == Message(frame.d)
        command_name == CommandName(message.content)
    IN  [command  |-> command_name,
         callback |-> commands[command_name].callback,
         message  |-> message,
         args     |-> Args(Parts(message.content))]

\* self.event_handlers.get(event_name, [])
Handlers(name) == Get(event_handlers, name, <<>>)

\* FanOut with the loop inside `if message.content.startswith('!')`: a
\* message that is no command reaches no handler
FanOutCommandsOnly(frame) ==
    IF IsDispatch(frame) /\ (EventName(frame) # MESSAGE_CREATE \/ IsPrefixed(frame))
    THEN LET event_name == EventName(frame)
             handlers == Handlers(event_name)
         IN  [i \in 1..Len(handlers) |->
                [handler |-> handlers[i],
                 arg     |-> IF event_name = MESSAGE_CREATE
                             THEN Message(frame.d) ELSE frame.d]]
    ELSE <<>>

\* the tasks of the loop `for handler in self.event_handlers.get(...)`,
\* in the order they are created
FanOut(frame) ==
    IF IsDispatch(frame)
    THEN LET event_name == EventName(frame)
             handlers == Handlers(event_name)
         IN  [i \in 1..Len(handlers) |->
                [handler |-> handlers[i],
                 arg     |-> IF event_name = MESSAGE_CREATE
                             THEN Message(frame.d) ELSE frame.d]]
    ELSE <<>>

\* EventLoopIter with the command callback started by asyncio.create_task
\* and not awaited: the handlers are fanned out in the same iteration step
EventLoopIterTask(frame) ==
    /\ pc = "recv"
    /\ ws = "open"
    /\ nrecv < MaxFrames
    /\ nrecv' = nrecv + 1
    /\ data' = Some(frame)
    /\ sequence' = NewSequence(frame)
    /\ last_s' = IF "s" \in DOMAIN frame /\ frame.s # Null THEN frame.s ELSE last_s
    /\ IF IsDispatch(frame) /\ EventName(frame) = READY
       THEN /\ session_id' = Some(frame.d.session_id)
            /\ user' = Some(User(frame.d.user))
       ELSE UNCHANGED <<session_id, user>>
    /\ called' = IF IsCommand(frame) THEN <<Invocation(frame)>> ELSE <<>>
    /\ tasks' = FanOut(frame)
    /\ pc' = "iterated"
    /\ UNCHANGED <<hb, ws, heartbeat_interval, commands, event_handlers,
                   hello_data, sent, registered>>

\* one frame is taken from the websocket and processed, up to the first
\* suspension: the await of a command callback, or the next read
EventLoopIter(frame) ==
    /\ pc = "recv"
    /\ ws = "open"
    /\ nrecv < MaxFrames
    /\ nrecv' = nrecv + 1
    /\ data' = Some(frame)
    /\ sequence' = NewSequence(frame)
    /\ last_s' = IF "s" \in DOMAIN frame /\ frame.s # Null THEN frame.s ELSE last_s
    /\ IF IsDispatch(frame) /\ EventName(frame) = READY
       THEN /\ session_id' = Some(frame.d.session_id)
            /\ user' = Some(User(frame.d.user))
       ELSE UNCHANGED <<session_id, user>>
    /\ IF IsCommand(frame)
       THEN /\ called' = <<Invocation(frame)>>
            /\ tasks' = <<>>
            /\ pc' = "callback"
       ELSE /\ called' = <<>>
            /\ tasks' = FanOut(frame)
            /\ pc' = "iterated"
    /\ UNCHANGED <<hb, ws, heartbeat_interval, commands, event_handlers,
                   hello_data, sent, registered>>

\* the awaited command callback returns: the handlers are fanned out
CallbackReturn ==
    /\ pc = "callback"
    /\ tasks' = FanOut(Val(data))
    /\ pc' = "iterated"
    /\ UNCHANGED <<hb, ws, heartbeat_interval, sequence, session_id, user,
                   commands, event_handlers, hello_data, data, called, sent,
                   nrecv, last_s, registered>>

\* the awaited command callback raises: the exception leaves _event_loop
\* and start()
CallbackRaise ==
    /\ pc = "callback"
    /\ pc' = "failed"
    /\ UNCHANGED <<hb, ws, heartbeat_interval, sequence, session_id, user,
                   commands, event_handlers, hello_data, data, called, tasks,
                   sent, nrecv, last_s, registered>>

\* the iteration is over: the loop is back at `async for message in self.ws`
\* and the iteration's locals are dead
EventLoopAwait ==
    /\ pc = "iterated"
    /\ pc' = "recv"
    /\ data' = Null
    /\ called' = <<>>
    /\ tasks' = <<>>
    /\ UNCHANGED <<hb, ws, heartbeat_interval, sequence, session_id, user,
                   commands, event_handlers, hello_data, sent, nrecv, last_s,
                   registered>>

\* the peer closes the connection: `async for` ends and start() returns
ConnectionClosed ==
    /\ pc = "recv"
    /\ ws = "open"
    /\ ws' = "closed"
    /\ pc' = "done"
    /\ UNCHANGED <<hb, heartbeat_interval, sequence, session_id, user,
                   commands, event_handlers, hello_data, data, called, tasks,
                   sent, nrecv, last_s, registered>>

\* a message arrives that json.loads rejects: the JSONDecodeError leaves
\* _event_loop and start() before anything is assigned
EventLoopDecodeError ==
    /\ pc = "recv"
    /\ ws = "open"
    /\ nrecv < MaxFrames
    /\ nrecv' = nrecv + 1
    /\ pc' = "failed"
    /\ UNCHANGED <<hb, ws, heartbeat_interval, sequence, session_id, user,
                   commands, event_handlers, hello_data, data, called, tasks,
                   sent, last_s, registered>>

-----------------------------------------------------------------------------
(* Client.run and Client.close *)

\* KeyboardInterrupt reaches run() while start() waits: close() runs up to
\* its first suspension, inside self.ws.close(); no task is cancelled
Interrupt ==
    /\ pc \in {"hello", "recv", "callback"}
    /\ ws = "open"
    /\ ws' = "closed"
    /\ pc' = "closing"
    /\ UNCHANGED <<hb, heartbeat_interval, sequence, session_id, user,
                   commands, event_handlers, hello_data, data, called, tasks,
                   sent, nrecv, last_s, registered>>

\* run() reaches `finally: loop.close()`, after start() has returned or
\* raised or after close() has returned: no task runs any more
LoopClose ==
    /\ pc \in {"done", "failed", "closing"}
    /\ pc' = "stopped"
    /\ UNCHANGED <<hb, ws, heartbeat_interval, sequence, session_id, user,
                   commands, event_handlers, hello_data, data, called, tasks,
                   sent, nrecv, last_s, registered>>

-----------------------------------------------------------------------------
(* Inputs *)

\* the "s" field of a frame that has one: null or a sequence number
SeqValues == {Null} \cup {Some(n) : n \in 1..MaxSeq}

\* each frame of F without the key "s", and with each value of it
WithSeq(F) == F \cup {f @@ [s |-> x] : f \in F, x \in SeqValues}

\* the frame HELLO is the one with operation code 10
IsHello(frame) == frame.op = 10

HelloFrame(ms) == [op |-> 10, d |-> [heartbeat_interval |-> ms]]

ReadyPayload ==
    [session_id |-> "sid", user |-> [id |-> "u1", username |-> "bot"]]

\* first frames: HELLO, and frames of other kinds with and without the key
\* start() reads
FirstFrames ==
    {HelloFrame(41250), HelloFrame(45000),
     [op |-> 11],
     [op |-> 0, s |-> Some(1), t |-> Upper(READY), d |-> ReadyPayload],
     [op |-> 0, s |-> Some(1), t |-> Upper(GUILD_CREATE),
      d |-> [id |-> "g1", heartbeat_interval |-> 41250]]}

\* frames of the sequence bookkeeping: a heartbeat acknowledgement and a
\* dispatch, with every shape of "s"
SeqFrames ==
    WithSeq({[op |-> 11],
             [op |-> 0, t |-> Upper(GUILD_CREATE), d |-> [id |-> "g1"]]})

-----------------------------------------------------------------------------
(* Handshake, sequence bookkeeping and heartbeats *)

Next ==
    \/ Start
    \/ \E frame \in FirstFrames : RecvHello(frame)
    \/ Identify
    \/ HeartbeatStart
    \/ HeartbeatTick
    \/ \E frame \in SeqFrames : EventLoopIter(frame)
    \/ EventLoopAwait
    \/ ConnectionClosed

Spec == Init /\ [][Next]_vars

-----------------------------------------------------------------------------
(* Command routing: commands and message handlers are registered, then      *)
(* message frames with every short content are dispatched                   *)

ContentChars == {" ", "e", "E"}

\* every str over ContentChars of length at most n
Strings(n) == UNION {[1..k -> ContentChars] : k \in 0..n}

\* message contents: a text, alone and behind the prefix
Contents == Strings(MaxLen) \cup {PREFIX \o str : str \in Strings(MaxLen)}

\* a function object, known by its __name__
Func(name) == [name |-> name]

\* command(name=...) and command() registrations
CommandRegistrations ==
    {<<Some(<<"e">>), Func(<<"o","n","_","e">>)>>,
     <<Some(<<"e"," ","e">>), Func(<<"o","n","_","e","e">>)>>,
     <<Null, Func(<<"E">>)>>}

on_a == Func(<<"o","n","_","a">>)
on_b == Func(<<"o","n","_","b">>)

MessageFrames ==
    {[op |-> 0, s |-> Some(1), t |-> Upper(MESSAGE_CREATE),
      d |-> [id |-> "m1", content |-> c]] : c \in Contents}
    \cup {[op |-> 0, s |-> Some(1), t |-> Upper(MESSAGE_CREATE), d |-> [id |-> "m1"]]}

NextCommands ==
    \/ \E r \in CommandRegistrations : RegisterCommand(r[1], <<>>, r[2])
    \/ \E func \in {on_a, on_b} : RegisterEvent(Some(MESSAGE_CREATE), func)
    \/ Start
    \/ RecvHello(HelloFrame(41250))
    \/ Identify
    \/ HeartbeatStart
    \/ HeartbeatTick
    \/ \E frame \in MessageFrames : EventLoopIter(frame)
    \/ CallbackReturn
    \/ CallbackRaise
    \/ EventLoopAwait
    \/ ConnectionClosed

SpecCommands == Init /\ [][NextCommands]_vars

-----------------------------------------------------------------------------
(* Event fan-out: handlers are registered under several spellings of the    *)
(* event names, then dispatch frames with several spellings are processed   *)

EventRegistrations ==
    {<<Some(READY), on_a>>, <<Some(READY), on_b>>,
     <<Some(Upper(READY)), on_a>>,
     <<Null, Func(READY)>>,
     <<Some(<<"x">>), on_a>>, <<Some(<<"x">>), on_b>>}

EventFrames ==
    {[op |-> 0, s |-> Some(1), t |-> t, d |-> ReadyPayload] :
        t \in {Upper(READY), READY, <<"R","e","a","d","y">>}}
    \cup {[op |-> 0, s |-> Some(1), t |-> t, d |-> [id |-> "g1"]] :
              t \in {<<"x">>, <<"X">>}}
    \cup {[op |-> 11, s |-> Null]}

NextEvents ==
    \/ \E r \in EventRegistrations : RegisterEvent(r[1], r[2])
    \/ Start
    \/ RecvHello(HelloFrame(41250))
    \/ Identify
    \/ HeartbeatStart
    \/ HeartbeatTick
    \/ \E frame \in EventFrames : EventLoopIter(frame)
    \/ EventLoopAwait
    \/ ConnectionClosed

SpecEvents == Init /\ [][NextEvents]_vars

-----------------------------------------------------------------------------
(* The whole life of a bot under run(): a command and handlers, frames of   *)
(* every kind, a message that is no JSON, callbacks that raise or never     *)
(* return, the peer closing, KeyboardInterrupt                              *)

on_e == Func(<<"o","n","_","e">>)

\* contents that put a space, a tab, a newline or nothing after "!e"
RunContents ==
    {<<"!","e">>, <<"!","e"," ","E">>, <<"!","e","\t","E">>,
     <<"!","e","\n","E">>}

\* messages, a heartbeat acknowledgement, and frames that are not dispatches
\* but carry an event name and a payload all the same
RunFrames ==
    {[op |-> 0, s |-> Some(1), t |-> Upper(MESSAGE_CREATE),
      d |-> [id |-> "m1", content |-> c]] : c \in RunContents}
    \cup {[op |-> 11, s |-> Null],
          [op |-> 7, s |-> Some(2), t |-> Upper(MESSAGE_CREATE),
           d |-> [id |-> "m1", content |-> <<"!","e">>]],
          [op |-> 11, s |-> Some(2), t |-> Upper(READY), d |-> ReadyPayload]}

RunRegistrations == {<<Some(MESSAGE_CREATE), on_a>>, <<Some(READY), on_b>>}

NextRun ==
    \/ RegisterCommand(Some(<<"e">>), <<>>, on_e)
    \/ \E r \in RunRegistrations : RegisterEvent(r[1], r[2])
    \/ Start
    \/ RecvHello(HelloFrame(41250))
    \/ Identify
    \/ HeartbeatStart
    \/ HeartbeatTick
    \/ \E frame \in RunFrames : EventLoopIter(frame)
    \/ EventLoopDecodeError
    \/ CallbackReturn
    \/ CallbackRaise
    \/ EventLoopAwait
    \/ ConnectionClosed
    \/ Interrupt
    \/ LoopClose

SpecRun == Init /\ [][NextRun]_vars

-----------------------------------------------------------------------------
(* The same life under fair scheduling: code that is running goes on to its *)
(* next suspension, and a task whose sleep has ended gets its turn.  A      *)
(* callback need never return, a frame need never arrive.                   *)

LiveFrames ==
    {[op |-> 0, s |-> Some(1), t |-> Upper(MESSAGE_CREATE),
      d |-> [id |-> "m1", content |-> <<"!","e">>]],
     [op |-> 11, s |-> Null]}

NextLive ==
    \/ RegisterCommand(Some(<<"e">>), <<>>, on_e)
    \/ Start
    \/ RecvHello(HelloFrame(41250))
    \/ Identify
    \/ HeartbeatStart
    \/ HeartbeatTick
    \/ \E frame \in LiveFrames : EventLoopIter(frame)
    \/ EventLoopDecodeError
    \/ CallbackReturn
    \/ CallbackRaise
    \/ EventLoopAwait
    \/ ConnectionClosed
    \/ Interrupt
    \/ LoopClose

SpecLive ==
    /\ Init /\ [][NextLive]_vars
    /\ WF_vars(Identify)
    /\ WF_vars(EventLoopAwait)
    /\ WF_vars(HeartbeatStart)
    /\ WF_vars(HeartbeatTick)

-----------------------------------------------------------------------------
(* Properties of the handshake, the sequence number and the heartbeats *)

\* a heartbeat frame is written in this step
HeartbeatSent ==
    /\ Len(sent') = Len(sent) + 1
    /\ sent'[Len(sent')].op = OP_HEARTBEAT

NumIdentify == Cardinality({i \in DOMAIN sent : sent[i].op = OP_IDENTIFY})

\* start() has reached _event_loop
LoopEntered == pc \in {"recv", "callback", "iterated", "done"} \/ nrecv > 0

\* C1: whatever frames the dispatch loop has processed, the recorded
\* sequence is the sequence number of the last frame that carried a non-null
\* one, and None if no frame carried one.
C1_SequenceIsLastCarried == sequence = last_s

\* C2: every heartbeat carries the most recent sequence number received at
\* the moment it is sent, or null if none was received yet.
C2_HeartbeatCarriesLatest ==
    [][HeartbeatSent => sent'[Len(sent')].d = last_s]_vars

\* C3: once the sequence has a value, no step makes it smaller or resets it
\* to None.
C3_SequenceMonotonic ==
    [][sequence # Null =>
        (sequence' # Null /\ Val(sequence') >= Val(sequence))]_vars

\* C4: at most one IDENTIFY is ever sent; it is sent only after the first
\* frame has been received and the heartbeat interval taken from its payload;
\* and the dispatch loop is entered only with exactly one IDENTIFY sent.
C4_OneIdentifyBetweenHelloAndLoop ==
    /\ NumIdentify <= 1
    /\ NumIdentify = 1 =>
          /\ hello_data # Null
          /\ HasInterval(Val(hello_data))
          /\ heartbeat_interval = Some(IntervalSeconds(Val(hello_data)))
    /\ LoopEntered => NumIdentify = 1

\* C4 witness: after HELLO the loop has processed a frame, one IDENTIFY sent
C4_Witness ==
    /\ hello_data # Null
    /\ IsHello(Val(hello_data))
    /\ heartbeat_interval = Some(<<41250, 1000>>)
    /\ pc = "iterated"
    /\ NumIdentify = 1

\* C5: when the first frame received is not HELLO, start() fails: no
\* heartbeat task, no IDENTIFY, no dispatch loop.
C5_NonHelloIsFatal ==
    (hello_data # Null /\ ~IsHello(Val(hello_data))) =>
        /\ pc = "failed"
        /\ hb = "none"
        /\ NumIdentify = 0
        /\ ~LoopEntered

-----------------------------------------------------------------------------
(* Properties of the command router and the handler fan-out *)

\* the frame of the current iteration is a dispatch of "message_create"
OnMessage ==
    /\ data # Null
    /\ Val(data).op = 0
    /\ Lower(Val(data).t) = MESSAGE_CREATE

\* its message and content
CurMessage == Message(Val(data).d)
Content == CurMessage.content

\* the handlers event() registered under exactly `name`, in order
RegisteredFor(name) ==
    LET regs == SelectSeq(registered, LAMBDA r : OrName(r.name, r.func) = name)
    IN  [i \in 1..Len(regs) |-> regs[i].func]

\* one task per handler in `handlers`, in order, each given `arg`
TasksOf(handlers, arg) ==
    [i \in 1..Len(handlers) |-> [handler |-> handlers[i], arg |-> arg]]

\* the one invocation of command `name` with remainder `rest`
CallOf(name, rest) ==
    <<[command  |-> name,
       callback |-> commands[name].callback,
       message  |-> CurMessage,
       args     |-> rest]>>

NoSpace(str) == \A i \in DOMAIN str : str[i] # " "

\* the text between the prefix and the first space
Token ==
    LET body == Tail(Content)
        i == Find(body, " ")
    IN  IF i = 0 THEN body ELSE SubSeq(body, 1, i - 1)

\* what C6 says of the command named `name`
RoutedTo(name) ==
    /\ StartsWith(Content, PREFIX \o name \o <<" ">>) =>
          called = CallOf(name, Some(SubSeq(Content, Len(name) + 3, Len(Content))))
    /\ Content = PREFIX \o name => called = CallOf(name, Some(<<>>))

\* C6 as stated: for every registered command name, content "!name R" invokes
\* its callback with the message and R, and content "!name" with "".
C6_AnyNameRouted ==
    OnMessage => \A name \in DOMAIN commands : RoutedTo(name)

\* C6: for every registered command name that contains no space, content
\* "!name R" invokes its callback with the message and R (everything after
\* the first space), and content "!name" invokes it with "", never None.
C6_SpaceFreeNameRouted ==
    OnMessage => \A name \in DOMAIN commands : NoSpace(name) => RoutedTo(name)

\* C6 witness: "!e E" has invoked the command e with remainder "E"
C6_Witness ==
    /\ OnMessage
    /\ Content = <<"!", "e", " ", "E">>
    /\ pc = "callback"
    /\ called = CallOf(<<"e">>, Some(<<"E">>))

\* C7: a message whose content does not start with the prefix invokes no
\* command callback, and every handler registered for message_create gets
\* exactly one task, with the message.
C7_UnprefixedOnlyFansOut ==
    (OnMessage /\ ~StartsWith(Content, PREFIX)) =>
        /\ pc = "iterated"
        /\ called = <<>>
        /\ tasks = TasksOf(RegisteredFor(MESSAGE_CREATE), CurMessage)

\* C7 witness: "e E" with the command e and a handler registered
C7_Witness ==
    /\ OnMessage
    /\ Content = <<"e", " ", "E">>
    /\ <<"e">> \in DOMAIN commands
    /\ called = <<>>
    /\ tasks = TasksOf(<<on_a>>, CurMessage)

\* C8: a message whose content starts with the prefix and whose token is not
\* the name of a registered command, letter case included, invokes no
\* callback and raises nothing: the iteration ends, the loop goes on to the
\* next frame, and the message_create handlers get their tasks.
C8_UnknownTokenIgnored ==
    (OnMessage /\ StartsWith(Content, PREFIX) /\ Token \notin DOMAIN commands) =>
        /\ pc = "iterated"
        /\ ENABLED EventLoopAwait
        /\ called = <<>>
        /\ tasks = TasksOf(RegisteredFor(MESSAGE_CREATE), CurMessage)

\* C8 witness: "!E e" with the command e registered, and a handler
C8_Witness ==
    /\ OnMessage
    /\ Content = <<"!", "E", " ", "e">>
    /\ <<"e">> \in DOMAIN commands
    /\ pc = "iterated"
    /\ called = <<>>
    /\ tasks = TasksOf(<<on_b>>, CurMessage)

\* the current iteration has processed a dispatch frame
Dispatched ==
    /\ data # Null
    /\ Val(data).op = 0
    /\ pc = "iterated"

\* C9: for a dispatch frame, the handlers registered under its event name
\* (as the loop looks it up, in lower case) get one task each, in the order
\* of their registration; two registrations under one name are both kept.
C9_AllHandlersInOrder ==
    Dispatched =>
        tasks = TasksOf(RegisteredFor(Lower(Val(data).t)),
                        IF OnMessage THEN CurMessage ELSE Val(data).d)

\* C9 witness: on_b then on_a registered under "ready", READY dispatched
C9_Witness ==
    /\ Dispatched
    /\ Val(data).t = Upper(READY)
    /\ registered = <<[name |-> Some(READY), func |-> on_b],
                      [name |-> Some(READY), func |-> on_a]>>
    /\ tasks = TasksOf(<<on_b, on_a>>, Val(data).d)

\* C10: a handler registered under any letter-case variant of an event name
\* gets a task for every dispatch frame whose event name equals it ignoring
\* case.
C10_RegistrationIgnoresCase ==
    Dispatched =>
        \A i \in DOMAIN registered :
            Lower(OrName(registered[i].name, registered[i].func)) = Lower(Val(data).t)
                => \E j \in DOMAIN tasks : tasks[j].handler = registered[i].func

-----------------------------------------------------------------------------
(* Properties of errors, callbacks that do not return, and shutdown *)

\* the awaited command callback of the current iteration ends in this step,
\* by returning or by raising
CallbackEnds == pc = "callback" /\ pc' \notin {"callback", "closing"}

\* C11: an error raised inside a command callback stays local to that
\* invocation: when the callback ends, by returning or by raising, the
\* dispatch loop goes on with its iteration and is not terminated.
C11_CallbackErrorIsLocal == [][CallbackEnds => pc' = "iterated"]_vars

\* the dispatch loop takes a message in this step and decodes no frame from it
UndecodableTaken == nrecv' = nrecv + 1 /\ data' = Null

\* C12: a message that cannot be decoded is skipped: the dispatch loop is
\* back at its read, not terminated, and the session state is as it was.
C12_UndecodableIsSkipped ==
    [][UndecodableTaken =>
          /\ pc' = "recv"
          /\ UNCHANGED <<sequence, session_id, user, heartbeat_interval>>]_vars

\* the connection is open and the model's supply of frames is not used up
FrameCanArrive == ws = "open" /\ nrecv < MaxFrames

\* C13: callbacks are fire-and-forget: while a command callback has not
\* completed, the dispatch loop can still take the next frame that arrives
\* and process it, sequence number included.
C13_CallbackDoesNotBlockLoop ==
    (pc = "callback" /\ FrameCanArrive) =>
        ENABLED (\E frame \in RunFrames : EventLoopIter(frame))

\* the heartbeat task wakes up and calls send() on the closed websocket
BeatAttemptedOnClosed == ws = "closed" /\ hb = "sleeping" /\ hb' = "dead"

\* C14: once the connection is closed, by the peer or through close(), the
\* heartbeat activity is terminated with it: no step attempts a heartbeat
\* send on the closed connection.
C14_NoBeatAfterClose == [][~BeatAttemptedOnClosed]_vars

-----------------------------------------------------------------------------
(* Properties of the session bookkeeping and the order of the dispatch *)

\* the dispatch loop processes a dispatch of "ready", in any letter case,
\* in this step
ReadyProcessed ==
    /\ nrecv' = nrecv + 1
    /\ data' # Null
    /\ Val(data').op = 0
    /\ Lower(Val(data').t) = READY

\* C15: the session identifier and the identity are absent at first; a step
\* that processes a dispatch of "ready", in any letter case, sets both from
\* the payload and gives every handler registered under "ready" a task with
\* that payload; no other step changes them.
C15_ReadySetsSession ==
    /\ session_id = Null /\ user = Null
    /\ [][IF ReadyProcessed
          THEN /\ session_id' = Some(Val(data').d.session_id)
               /\ user' = Some(User(Val(data').d.user))
               /\ tasks' = TasksOf(RegisteredFor(READY), Val(data').d)
          ELSE UNCHANGED <<session_id, user>>]_vars

\* C15 witness: "Ready" has been dispatched with on_a registered under
\* "ready": the session is set and on_a has its task
C15_Witness ==
    /\ Dispatched
    /\ Val(data).t = <<"R","e","a","d","y">>
    /\ registered = <<[name |-> Some(READY), func |-> on_a]>>
    /\ session_id = Some("sid")
    /\ user = Some(User(ReadyPayload.user))
    /\ tasks = TasksOf(<<on_a>>, ReadyPayload)

\* the dispatch loop processes a frame whose operation code is not 0 in
\* this step
NonDispatchProcessed ==
    /\ nrecv' = nrecv + 1
    /\ data' # Null
    /\ Val(data').op # 0

\* C16: a step that processes a frame whose operation code is not the
\* dispatch code leaves the session identifier, the identity, the heartbeat
\* interval and both registration tables as they were, invokes no command
\* callback and creates no handler task: the iteration is over.
C16_NonDispatchOnlySequence ==
    [][NonDispatchProcessed =>
          /\ UNCHANGED <<session_id, user, heartbeat_interval, commands,
                         event_handlers>>
          /\ called' = <<>>
          /\ tasks' = <<>>
          /\ pc' = "iterated"]_vars

\* C16 witness: a frame of operation code 7 that carries the message "!e"
\* has been processed with the command e and a message handler registered:
\* only the sequence has moved
C16_Witness ==
    /\ data # Null
    /\ Val(data).op = 7
    /\ Val(data).d.content = <<"!","e">>
    /\ <<"e">> \in DOMAIN commands
    /\ event_handlers[MESSAGE_CREATE] = <<on_a>>
    /\ sequence = Some(2)
    /\ session_id = Null
    /\ called = <<>>
    /\ tasks = <<>>
    /\ pc = "iterated"

\* the frame of the current iteration is a message that matches a
\* registered command
Matches ==
    /\ OnMessage
    /\ StartsWith(Content, PREFIX)
    /\ Token \in DOMAIN commands

\* handler tasks are created in this step
TasksCreated == tasks' # tasks /\ tasks' # <<>>

\* C17: for a message frame that matches a registered command, the callback
\* of that command has been invoked exactly once; no handler task exists
\* while the invocation has not returned; and the handler tasks are created
\* only by a later step, after that one invocation.
C17_CallbackOnceBeforeFanOut ==
    /\ [](Matches =>
            /\ Len(called) = 1
            /\ called[1].command = Token
            /\ pc = "callback" => tasks = <<>>)
    /\ [][(Matches' /\ TasksCreated) =>
            /\ pc = "callback"
            /\ called' = called]_vars

\* C17 witness: "!e" has invoked the command e once, the callback has
\* returned, and then the handler on_a got its task
C17_Witness ==
    /\ Matches
    /\ Content = <<"!","e">>
    /\ pc = "iterated"
    /\ called = CallOf(<<"e">>, Some(<<>>))
    /\ tasks = TasksOf(<<on_a>>, CurMessage)

\* the whitespace characters that can follow a command name
Whitespace == {" ", "\t", "\n"}

NoWhitespace(str) == \A i \in DOMAIN str : str[i] \notin Whitespace

\* C19: the command token ends at the first whitespace character of any
\* kind: content made of the prefix, a registered command name, a space, a
\* tab or a newline, and a text R invokes that command with remainder R.
C19_AnyWhitespaceEndsToken ==
    OnMessage =>
        \A name \in DOMAIN commands : \A w \in Whitespace :
            (NoWhitespace(name) /\ StartsWith(Content, PREFIX \o name \o <<w>>))
                => called = CallOf(name, Some(SubSeq(Content, Len(name) + 3,
                                                     Len(Content))))


-----------------------------------------------------------------------------
(* Properties of the heartbeat task: progress and order *)

\* C18: while the connection stays open and the event loop runs, the k-th
\* heartbeat is followed by another one, wherever the dispatch loop is:
\* waiting for a frame, processing one, suspended in a command callback that
\* may never return, or ended.
C18_HeartbeatsKeepComing ==
    \A k \in 1..(MaxBeats - 1) :
        (NumBeats = k) ~> (NumBeats > k \/ ws # "open" \/ pc = "stopped")

\* C18 witness: two heartbeats were sent while the dispatch loop was
\* suspended in the callback of "!e": both carry the sequence of that frame
C18_Witness ==
    /\ pc = "callback"
    /\ ws = "open"
    /\ nrecv = 1
    /\ sent = <<identify_payload,
                [op |-> OP_HEARTBEAT, d |-> Some(1)],
                [op |-> OP_HEARTBEAT, d |-> Some(1)]>>

\* C20: the first frame written on the connection is IDENTIFY: every
\* heartbeat frame comes after it, and none is written before the first
\* frame of the connection (the one start() takes as HELLO) has been
\* received, although the heartbeat task is created before IDENTIFY is sent.
C20_IdentifyIsFirstFrame ==
    /\ sent # <<>> => sent[1].op = OP_IDENTIFY
    /\ \A i \in DOMAIN sent :
          sent[i].op = OP_HEARTBEAT =>
              /\ i > 1
              /\ hello_data # Null
              /\ hb # "none"
    /\ (hb # "none" /\ pc = "identify") => sent = <<>>

\* C20 witness: after HELLO, IDENTIFY and then a heartbeat have been written
C20_Witness ==
    /\ hello_data # Null
    /\ IsHello(Val(hello_data))
    /\ Len(sent) = 2
    /\ sent[1] = identify_payload
    /\ sent[2].op = OP_HEARTBEAT

=============================================================================
